---- MODULE Spec2Model ----
(***************************************************************************)
(* Instapaper bookmark organizer (src/main.py): the retrying API wrapper   *)
(* api_post, the rule matcher suggest_folder and the interactive triage    *)
(* loop of main().                                                         *)
(*                                                                         *)
(* Strings that the code inspects character by character (domains, rule    *)
(* patterns) are sequences of one-character strings.  Python's None is the *)
(* integer None, dicts are sequences of [k, v] entries in insertion order. *)
(***************************************************************************)
EXTENDS Integers, Sequences, FiniteSets, TLC

VARIABLES
    pc,       \* position of main(): "start" (before list_folders), "fetch" (top
              \* of the while loop), "prompt" (blocked in input), "done" (returned),
              \* "aborted" (SystemExit)
    call,     \* locals of api_post (attempt, last_err, sleeps): of the call that
              \* raised SystemExit, or of the call the api_post harness steps
    folders,  \* the folder catalog of list_folders
    keymap,   \* build_keymap(folders)
    rules,    \* the in-memory rule dict
    file,     \* content of rules.json (NoFile when it does not exist)
    writes,   \* number of save_json(RULES_PATH, ...) calls so far
    fetches,  \* number of list_unread_bookmarks calls so far
    items,    \* bookmark-typed entries of the current page
    idx,      \* position of the for loop in items (1-based)
    mv,       \* the move_bookmark call the last command issued (NoMove if none)
    last,     \* the command handled last: normalised cmd, folder key, message printed
    sd,       \* suggest_folder harness: domain argument
    sR,       \* suggest_folder harness: rules argument
    sres,     \* suggest_folder harness: returned value
    alog      \* api_post harness: the responses of the attempts made so far

vars == <<pc, call, folders, keymap, rules, file, writes, fetches, items, idx,
          mv, last, sd, sR, sres, alog>>

sessionVars == <<pc, folders, keymap, rules, file, writes, fetches, items, idx, mv, last>>

harnessVars == <<sd, sR, sres, alog>>

-----------------------------------------------------------------------------
(* Bounds of the model *)

MaxPage == 2        \* entries in one /bookmarks/list response

MaxFolders == 2     \* folders in the /folders/list response

MaxFetches == 1     \* page fetches that may return a non-empty page

MaxWrites == 1      \* explicit rule saves (command s) per run

MaxLen == 3         \* length of the strings given to suggest_folder

MaxRules == 2       \* entries of the rule tables given to suggest_folder

MaxCatalog == 10    \* folders of the catalogs given to build_keymap

(* Program constants *)

MaxAttempts == 6    \* for attempt in range(6)

BaseDelay == 6      \* 0.6 s, in tenths of a second

MaxKeys == 9        \* build_keymap(folders, max_keys=9)

PageLimit == 25     \* list_unread_bookmarks(auth, limit=25)

None == -1          \* Python's None (never a folder id)

TransientStatus == {429, 500, 502, 503, 504}

-----------------------------------------------------------------------------
(* Strings *)

Min(a, b) == IF a < b THEN a ELSE b

\* str.startswith(".")
StartsWithDot(k) == Len(k) > 0 /\ k[1] = "."

\* str.endswith(k)
EndsWith(d, k) ==
    /\ Len(k) <= Len(d)
    /\ SubSeq(d, Len(d) - Len(k) + 1, Len(d)) = k

\* str.lower() on the characters the model uses
LowerChar(c) == IF c = "A" THEN "a" ELSE c

Lower(s) == [i \in 1..Len(s) |-> LowerChar(s[i])]

\* A url is represented by its network-location component as written in the
\* url (<<>> for a url without one, such as a blank or malformed url).
domain_of(url) == Lower(url)

-----------------------------------------------------------------------------
(* The rule dict: a sequence of entries [k |-> pattern, v |-> folder id],    *)
(* keys unique, in insertion order.                                        *)

HasKey(R, k) == \E i \in 1..Len(R) : R[i].k = k

Get(R, k) == R[CHOOSE i \in 1..Len(R) : R[i].k = k].v

\* rules[k] = v : overwrite in place, or append a new key
Put(R, k, v) ==
    IF HasKey(R, k)
    THEN [i \in 1..Len(R) |-> IF R[i].k = k THEN [k |-> k, v |-> v] ELSE R[i]]
    ELSE Append(R, [k |-> k, v |-> v])

\* rules.setdefault(k, v)
SetDefault(R, k, v) == IF HasKey(R, k) THEN R ELSE Append(R, [k |-> k, v |-> v])

RECURSIVE SuffixScan(_, _, _)
\* for k, v in rules.items(): if k.startswith(".") and domain.endswith(k): return v
SuffixScan(domain, R, i) ==
    IF i > Len(R) THEN None
    ELSE IF StartsWithDot(R[i].k) /\ EndsWith(domain, R[i].k) THEN R[i].v
    ELSE SuffixScan(domain, R, i + 1)

RECURSIVE LastSuffixScan(_, _, _)
\* Variant of SuffixScan: the last matching entry instead of the first
LastSuffixScan(domain, R, i) ==
    IF i < 1 THEN None
    ELSE IF StartsWithDot(R[i].k) /\ EndsWith(domain, R[i].k) THEN R[i].v
    ELSE LastSuffixScan(domain, R, i - 1)

\* Variant of suggest_folder: suffix rules are tried before the exact key
suggest_folder_suffix_first(domain, R) ==
    IF SuffixScan(domain, R, 1) # None THEN SuffixScan(domain, R, 1)
    ELSE IF HasKey(R, domain) THEN Get(R, domain)
    ELSE None

\* Variant of suggest_folder: the last matching suffix rule wins
suggest_folder_last_match(domain, R) ==
    IF HasKey(R, domain) THEN Get(R, domain)
    ELSE LastSuffixScan(domain, R, Len(R))

suggest_folder(domain, R) ==
    IF HasKey(R, domain) THEN Get(R, domain)
    ELSE SuffixScan(domain, R, 1)

-----------------------------------------------------------------------------
(* Persistence: rules.json holds the dict as a sequence of <<key, value>>   *)
(* pairs, in dict order.                                                   *)

NoFile == << << <<"absent">>, 0 >> >>

Dump(R) == [i \in 1..Len(R) |-> <<R[i].k, R[i].v>>]

\* load_json(path, default): the default when the file does not exist
load_json(f, default) ==
    IF f = NoFile THEN default
    ELSE [i \in 1..Len(f) |-> [k |-> f[i][1], v |-> f[i][2]]]

\* save_json(path, data): the content the file has after the rename
save_json(data) == Dump(data)

-----------------------------------------------------------------------------
(* api_post: one iteration of the retry loop                               *)

\* What requests.post produced: status 0 stands for a transport-level fault
\* (timeout, connection error) raised instead of a response; kind tells
\* whether r.text is a JSON document, empty, or not parseable; json is the
\* parsed document, a list of entries.
Resp(status, kind, json) == [status |-> status, kind |-> kind, json |-> json]

NoErr == [type |-> "None", status |-> 0]

ConnErr == [type |-> "ConnectionError", status |-> 0]

JSONErr == [type |-> "JSONDecodeError", status |-> 0]

HTTPError(status) == [type |-> "HTTPError", status |-> status]

NoCall ==
    [path |-> "none", attempt |-> 0, last_err |-> NoErr, sleeps |-> <<>>,
     st |-> "idle", result |-> <<>>]

\* Entry of api_post: last_err = None, the loop is about to run attempt 0.
FreshCall(path) ==
    [path |-> path, attempt |-> 0, last_err |-> NoErr, sleeps |-> <<>>,
     st |-> "running", result |-> <<>>]

\* r.raise_for_status() raises for 400 <= status < 600
RaisesForStatus(status) == status >= 400 /\ status < 600

\* The value api_post returns for a response that passes raise_for_status:
\* r.json() if r.text else {}
Returned(c, r) ==
    [c EXCEPT !.st = "returned", !.result = IF r.kind = "empty" THEN <<>> ELSE r.json]

\* The except branch (or the transient branch with e = c.last_err): sleep
\* 0.6 * 2**attempt, go round the loop; leaving the loop raises SystemExit.
\* Variant of Failed: the delay grows by BaseDelay per attempt instead of
\* doubling
Failed_linear(c, e, limit) ==
    [c EXCEPT !.attempt = c.attempt + 1, !.last_err = e,
              !.sleeps = Append(c.sleeps, BaseDelay * (c.attempt + 1)),
              !.st = IF c.attempt + 1 >= limit THEN "raised" ELSE "running"]

Failed(c, e, limit) ==
    [c EXCEPT !.attempt = c.attempt + 1,
              !.last_err = e,
              !.sleeps = Append(c.sleeps, BaseDelay * 2^(c.attempt)),
              !.st = IF c.attempt + 1 >= limit THEN "raised" ELSE "running"]

\* Variant of api_post_step: the loop allows a seventh attempt
api_post_step_seven(c, r) ==
    IF r.status = 0 THEN Failed(c, ConnErr, MaxAttempts + 1)
    ELSE IF r.status \in TransientStatus THEN Failed(c, c.last_err, MaxAttempts + 1)
    ELSE IF RaisesForStatus(r.status) THEN Failed(c, HTTPError(r.status), MaxAttempts + 1)
    ELSE IF r.kind = "bad" THEN Failed(c, JSONErr, MaxAttempts + 1)
    ELSE Returned(c, r)

\* One pass through the body of "for attempt in range(6)" with response r.
api_post_step(c, r) ==
    IF r.status = 0 THEN Failed(c, ConnErr, MaxAttempts)
    ELSE IF r.status \in TransientStatus THEN Failed(c, c.last_err, MaxAttempts)
    ELSE IF RaisesForStatus(r.status) THEN Failed(c, HTTPError(r.status), MaxAttempts)
    ELSE IF r.kind = "bad" THEN Failed(c, JSONErr, MaxAttempts)
    ELSE Returned(c, r)

RECURSIVE ApiRun(_, _)
\* The loop of api_post against the responses rs, one per attempt, until it
\* returns or raises
ApiRun(c, rs) ==
    IF rs = <<>> \/ c.st # "running" THEN c
    ELSE ApiRun(api_post_step(c, Head(rs)), Tail(rs))

\* api_post(auth, path, data) against the responses rs
api_post(path, rs) == ApiRun(FreshCall(path), rs)

-----------------------------------------------------------------------------
(* Inputs of the session *)

Dot == "."

UrlAa == <<"A", Dot, "a">>      \* //A.a/...   (domain a.a)

SessUrls == {<<>>, UrlAa}

FolderId(i) == 10 + i

\* rules.json as found at start-up: missing, or written by hand or by an
\* earlier run (suffix rules are only ever written by hand)
InitFiles ==
    { NoFile,
      << <<<<Dot, "a">>, FolderId(1)>> >>,
      << <<<<"a", Dot, "a">>, FolderId(2)>>, <<<<Dot, "a">>, FolderId(1)>> >> }

\* The responses whose status and body decide what api_post does
FailResponses ==
    { Resp(0, "empty", <<>>), Resp(404, "bad", <<>>), Resp(503, "bad", <<>>) }

\* What the remote answers to the attempts of one api_post call: failures,
\* then a final response; or failures on every attempt
FailPrefixes ==
    { [i \in 1..n |-> f] : n \in {0, MaxAttempts - 1}, f \in FailResponses }

Scripts(finals) == { p \o <<f>> : p \in FailPrefixes, f \in finals }

ExhaustScripts ==
    { [i \in 1..MaxAttempts |-> IF i < MaxAttempts THEN f ELSE g] :
        f \in FailResponses, g \in FailResponses }

\* /folders/list: n folders, possibly after an entry of another type
RawCatalog(n, other) ==
    (IF other THEN <<[type |-> "user", id |-> 1, url |-> <<>>]>> ELSE <<>>)
    \o [i \in 1..n |-> [type |-> "folder", id |-> FolderId(i), url |-> <<>>]]

FolderResponses ==
    { Resp(200, "json", RawCatalog(n, other)) : n \in 0..MaxFolders, other \in BOOLEAN }
    \cup { Resp(200, "empty", <<>>) }

\* /bookmarks/list: up to limit entries, each a bookmark or a meta object
PageSlots ==
    { [type |-> "meta", url |-> <<>>] } \cup { [type |-> "bookmark", url |-> u] : u \in SessUrls }

RawPage(slots, base) ==
    [i \in 1..Len(slots) |-> [type |-> slots[i].type, id |-> base + i, url |-> slots[i].url]]

PageResponses(n) ==
    { Resp(200, "json", RawPage(slots, 10 * n)) :
        slots \in UNION { [1..len -> PageSlots] : len \in 0..Min(MaxPage, PageLimit) } }
    \cup { Resp(200, "empty", <<>>) }

MoveResponses == { Resp(200, "json", <<>>) }

\* input("> ") and input("folder key> ") lines
RawCmds == {"q", "Q", "n", "", "a", "s", "1", "2", "3", "x"}

RawKeys == {"1", " 2", "3", "x"}

\* .strip().lower() on the command lines above
NormCmd(raw) == IF raw = "Q" THEN "q" ELSE raw

\* .strip() on the folder-key lines above
StripKey(raw) == IF raw = " 2" THEN "2" ELSE raw

-----------------------------------------------------------------------------
(* Catalog and key binding *)

DigitStr == <<"1", "2", "3", "4", "5", "6", "7", "8", "9", "10", "11">>

\* str(i) for the key numbers the model reaches
str(i) == DigitStr[i]

\* list_folders: the entries of type "folder", as Folder(folder_id)
list_folders(raw) ==
    LET fs == SelectSeq(raw, LAMBDA x : x.type = "folder")
    IN  [i \in 1..Len(fs) |-> [folder_id |-> fs[i].id]]

\* Variant of build_keymap: every folder gets a key, max_keys is ignored
build_keymap_all_folders(fs, max_keys) ==
    [k \in {str(i + 1) : i \in 0..(Len(fs) - 1)} |->
        fs[CHOOSE i \in 1..Len(fs) : str(i) = k]]

\* {str(i + 1): folders[i] for i in range(min(max_keys, len(folders)))}
build_keymap(fs, max_keys) ==
    [k \in {str(i + 1) : i \in 0..(Min(max_keys, Len(fs)) - 1)} |->
        fs[CHOOSE i \in 1..Len(fs) : str(i) = k]]

\* items = [b for b in bookmarks if b.get("type") == "bookmark"]
BookmarkItems(raw) == SelectSeq(raw, LAMBDA x : x.type = "bookmark")

\* Variant of Falsy: the test for a missing suggestion never fires
Falsy_never(x) == FALSE

\* "if not suggested_id": None and 0 are both falsy
Falsy(x) == x = None \/ x = 0

-----------------------------------------------------------------------------
(* The triage session: main()                                              *)

NoMove == [bid |-> 0, fid |-> 0, via |-> ""]

Said(cmd, key, msg) == [cmd |-> cmd, key |-> key, msg |-> msg]

\* The bookmark the for loop is at, its domain and its suggestion
Cur == items[idx]

Dom == domain_of(Cur.url)

suggested_id == IF Dom # <<>> THEN suggest_folder(Dom, rules) ELSE None

HarnessIdle == sd = <<>> /\ sR = <<>> /\ sres = None /\ alog = <<>>

Init ==
    /\ pc = "start"
    /\ call = NoCall
    /\ folders = <<>>
    /\ keymap = <<>>
    /\ rules = <<>>
    /\ file \in InitFiles
    /\ writes = 0
    /\ fetches = 0
    /\ items = <<>>
    /\ idx = 0
    /\ mv = NoMove
    /\ last = Said("", "", "")
    /\ HarnessIdle

\* Variant of AfterUnknown: prompt again for the same item
Stay ==
    /\ pc' = "prompt"
    /\ UNCHANGED <<items, idx>>

\* Variant of Advance: the session ends when the page is drained
Advance_once ==
    IF idx < Len(items)
    THEN /\ pc' = "prompt"
         /\ idx' = idx + 1
         /\ UNCHANGED items
    ELSE /\ pc' = "done"
         /\ idx' = 0
         /\ items' = <<>>

\* "continue", or the end of the loop body: the next item of the page, or
\* back to the top of "while True" when the page is drained (the drained page
\* is not read again)
Advance ==
    IF idx < Len(items)
    THEN /\ pc' = "prompt"
         /\ idx' = idx + 1
         /\ UNCHANGED items
    ELSE /\ pc' = "fetch"
         /\ idx' = 0
         /\ items' = <<>>

\* Variant of Abort: the fault of a move is caught like an ordinary exception
\* and the session stays at the prompt
Abort_caught(c) ==
    /\ c.st = "raised"
    /\ pc' = (IF c.path = "/bookmarks/move" THEN "prompt" ELSE "aborted")
    /\ call' = c

\* api_post raised SystemExit: no handler of main catches it ("except
\* Exception" does not catch SystemExit), the process exits
Abort(c) ==
    /\ c.st = "raised"
    /\ pc' = "aborted"
    /\ call' = c

\* folders = list_folders(auth) ... rules = load_json(RULES_PATH, default={})
Start(rs) ==
    /\ pc = "start"
    /\ api_post("/folders/list", rs).st = "returned"
    /\ list_folders(api_post("/folders/list", rs).result) # <<>>
    /\ folders' = list_folders(api_post("/folders/list", rs).result)
    /\ keymap' = build_keymap(folders', MaxKeys)
    /\ rules' = load_json(file, <<>>)
    /\ last' = Said("", "", "Folders (1..9):")
    /\ pc' = "fetch"
    /\ UNCHANGED <<call, file, writes, fetches, items, idx, mv>>
    /\ UNCHANGED harnessVars

\* if not folders: raise SystemExit("No user-created folders. ...")
StartNoFolders(rs) ==
    /\ pc = "start"
    /\ api_post("/folders/list", rs).st = "returned"
    /\ list_folders(api_post("/folders/list", rs).result) = <<>>
    /\ pc' = "aborted"
    /\ last' = Said("", "", "No user-created folders.")
    /\ UNCHANGED <<call, folders, keymap, rules, file, writes, fetches, items, idx, mv>>
    /\ UNCHANGED harnessVars

\* list_folders: api_post runs out of attempts
StartFatal(rs) ==
    /\ pc = "start"
    /\ Abort(api_post("/folders/list", rs))
    /\ UNCHANGED <<folders, keymap, rules, file, writes, fetches, items, idx, mv, last>>
    /\ UNCHANGED harnessVars

\* list_unread_bookmarks returns bookmarks: present the first one
FetchPage(rs) ==
    /\ pc = "fetch"
    /\ fetches < MaxFetches
    /\ api_post("/bookmarks/list", rs).st = "returned"
    /\ BookmarkItems(api_post("/bookmarks/list", rs).result) # <<>>
    /\ items' = BookmarkItems(api_post("/bookmarks/list", rs).result)
    /\ idx' = 1
    /\ pc' = "prompt"
    /\ fetches' = fetches + 1
    /\ mv' = NoMove
    /\ last' = Said("", "", "")
    /\ UNCHANGED <<call, folders, keymap, rules, file, writes>>
    /\ UNCHANGED harnessVars

\* Variant of FetchEmpty: the loop is left without the save_json of line 312
FetchEmpty_no_save(rs) ==
    /\ pc = "fetch"
    /\ api_post("/bookmarks/list", rs).st = "returned"
    /\ BookmarkItems(api_post("/bookmarks/list", rs).result) = <<>>
    /\ pc' = "done"
    /\ fetches' = fetches + 1
    /\ mv' = NoMove
    /\ last' = Said("", "", "No unread bookmarks.")
    /\ UNCHANGED <<call, folders, keymap, rules, file, writes, items, idx>>
    /\ UNCHANGED harnessVars

\* list_unread_bookmarks returns no bookmark: break, save the rules, return
FetchEmpty(rs) ==
    /\ pc = "fetch"
    /\ api_post("/bookmarks/list", rs).st = "returned"
    /\ BookmarkItems(api_post("/bookmarks/list", rs).result) = <<>>
    /\ pc' = "done"
    /\ fetches' = fetches + 1
    /\ file' = save_json(rules)
    /\ writes' = writes + 1
    /\ mv' = NoMove
    /\ last' = Said("", "", "No unread bookmarks.")
    /\ UNCHANGED <<call, folders, keymap, rules, items, idx>>
    /\ UNCHANGED harnessVars

\* list_unread_bookmarks: api_post runs out of attempts
FetchFatal(rs) ==
    /\ pc = "fetch"
    /\ Abort(api_post("/bookmarks/list", rs))
    /\ fetches' = fetches + 1
    /\ mv' = NoMove
    /\ UNCHANGED <<folders, keymap, rules, file, writes, items, idx, last>>
    /\ UNCHANGED harnessVars

\* cmd == "q"
CmdQuit(raw) ==
    /\ pc = "prompt"
    /\ NormCmd(raw) = "q"
    /\ file' = save_json(rules)
    /\ writes' = writes + 1
    /\ pc' = "done"
    /\ mv' = NoMove
    /\ last' = Said("q", "", "")
    /\ UNCHANGED <<call, folders, keymap, rules, fetches, items, idx>>
    /\ UNCHANGED harnessVars

\* cmd in ("n", "")
CmdSkip(raw) ==
    /\ pc = "prompt"
    /\ NormCmd(raw) \in {"n", ""}
    /\ mv' = NoMove
    /\ last' = Said(NormCmd(raw), "", "")
    /\ Advance
    /\ UNCHANGED <<call, folders, keymap, rules, file, writes, fetches>>
    /\ UNCHANGED harnessVars

\* cmd == "a" without a suggestion
CmdAutoNone(raw) ==
    /\ pc = "prompt"
    /\ NormCmd(raw) = "a"
    /\ Falsy(suggested_id)
    /\ mv' = NoMove
    /\ last' = Said("a", "", "no suggestion")
    /\ Advance
    /\ UNCHANGED <<call, folders, keymap, rules, file, writes, fetches>>
    /\ UNCHANGED harnessVars

\* cmd == "a" with a suggestion: move_bookmark(auth, bid, suggested_id) returns
CmdAutoMove(raw, rs) ==
    /\ pc = "prompt"
    /\ NormCmd(raw) = "a"
    /\ ~Falsy(suggested_id)
    /\ api_post("/bookmarks/move", rs).st = "returned"
    /\ mv' = [bid |-> Cur.id, fid |-> suggested_id, via |-> "a"]
    /\ last' = Said("a", "", "moved")
    /\ Advance
    /\ UNCHANGED <<call, folders, keymap, rules, file, writes, fetches>>
    /\ UNCHANGED harnessVars

\* cmd == "a" with a suggestion: api_post runs out of attempts
CmdAutoFatal(raw, rs) ==
    /\ pc = "prompt"
    /\ NormCmd(raw) = "a"
    /\ ~Falsy(suggested_id)
    /\ Abort(api_post("/bookmarks/move", rs))
    /\ mv' = [bid |-> Cur.id, fid |-> suggested_id, via |-> "a"]
    /\ last' = Said("a", "", "")
    /\ UNCHANGED <<folders, keymap, rules, file, writes, fetches, items, idx>>
    /\ UNCHANGED harnessVars

\* cmd == "s" on an item without a domain
CmdSaveNoDomain(raw) ==
    /\ pc = "prompt"
    /\ NormCmd(raw) = "s"
    /\ Dom = <<>>
    /\ mv' = NoMove
    /\ last' = Said("s", "", "no domain; cannot save rule")
    /\ Advance
    /\ UNCHANGED <<call, folders, keymap, rules, file, writes, fetches>>
    /\ UNCHANGED harnessVars

\* Variant of CmdSaveInvalid: the rule file is written before the key is
\* validated
CmdSaveInvalid_saves(raw, rawkey) ==
    /\ pc = "prompt"
    /\ NormCmd(raw) = "s"
    /\ Dom # <<>>
    /\ StripKey(rawkey) \notin DOMAIN keymap
    /\ file' = save_json(rules)
    /\ writes' = writes + 1
    /\ mv' = NoMove
    /\ last' = Said("s", StripKey(rawkey), "invalid key")
    /\ Advance
    /\ UNCHANGED <<call, folders, keymap, rules, fetches>>
    /\ UNCHANGED harnessVars

\* cmd == "s", then a folder key that is not in the keymap
CmdSaveInvalid(raw, rawkey) ==
    /\ pc = "prompt"
    /\ NormCmd(raw) = "s"
    /\ Dom # <<>>
    /\ StripKey(rawkey) \notin DOMAIN keymap
    /\ mv' = NoMove
    /\ last' = Said("s", StripKey(rawkey), "invalid key")
    /\ Advance
    /\ UNCHANGED <<call, folders, keymap, rules, file, writes, fetches>>
    /\ UNCHANGED harnessVars

\* Variant of SaveRule: an existing mapping is kept
SaveRule_if_absent(R, d, fid) == SetDefault(R, d, fid)

\* Variant of SaveRule: the key's number is stored instead of the folder id
SaveRule_key_number(R, d, fid) == Put(R, d, fid - 10)

\* rules[dom] = keymap[k].folder_id
SaveRule(R, d, fid) == Put(R, d, fid)

\* cmd == "s", then a folder key of the keymap: record the rule and save
CmdSaveRule(raw, rawkey) ==
    /\ pc = "prompt"
    /\ NormCmd(raw) = "s"
    /\ Dom # <<>>
    /\ StripKey(rawkey) \in DOMAIN keymap
    /\ writes < MaxWrites
    /\ rules' = SaveRule(rules, Dom, keymap[StripKey(rawkey)].folder_id)
    /\ file' = save_json(rules')
    /\ writes' = writes + 1
    /\ mv' = NoMove
    /\ last' = Said("s", StripKey(rawkey), "saved")
    /\ Advance
    /\ UNCHANGED <<call, folders, keymap, fetches>>
    /\ UNCHANGED harnessVars

\* Variant of Learn: an existing mapping is overwritten
Learn_overwrite(R, d, fid) == IF d # <<>> THEN Put(R, d, fid) ELSE R

\* Variant of Learn: the test "if dom" is missing
Learn_any_domain(R, d, fid) == SetDefault(R, d, fid)

\* Variant of Learn: nothing is learned when the rules already suggest a
\* folder for the domain, be it through a suffix rule
Learn_unless_suggested(R, d, fid) ==
    IF d # <<>> /\ suggest_folder(d, R) = None THEN SetDefault(R, d, fid) ELSE R

\* if dom: rules.setdefault(dom, keymap[cmd].folder_id)
Learn(R, d, fid) == IF d # <<>> THEN SetDefault(R, d, fid) ELSE R

\* cmd in keymap: move_bookmark(auth, bid, keymap[cmd].folder_id) returns
CmdDigitMove(raw, rs) ==
    /\ pc = "prompt"
    /\ NormCmd(raw) \notin {"q", "n", "", "a", "s"}
    /\ NormCmd(raw) \in DOMAIN keymap
    /\ api_post("/bookmarks/move", rs).st = "returned"
    /\ mv' = [bid |-> Cur.id, fid |-> keymap[NormCmd(raw)].folder_id, via |-> NormCmd(raw)]
    /\ rules' = Learn(rules, Dom, keymap[NormCmd(raw)].folder_id)
    /\ last' = Said(NormCmd(raw), "", "moved")
    /\ Advance
    /\ UNCHANGED <<call, folders, keymap, file, writes, fetches>>
    /\ UNCHANGED harnessVars

\* cmd in keymap: api_post runs out of attempts
CmdDigitFatal(raw, rs) ==
    /\ pc = "prompt"
    /\ NormCmd(raw) \notin {"q", "n", "", "a", "s"}
    /\ NormCmd(raw) \in DOMAIN keymap
    /\ Abort(api_post("/bookmarks/move", rs))
    /\ mv' = [bid |-> Cur.id, fid |-> keymap[NormCmd(raw)].folder_id, via |-> NormCmd(raw)]
    /\ last' = Said(NormCmd(raw), "", "")
    /\ UNCHANGED <<folders, keymap, rules, file, writes, fetches, items, idx>>
    /\ UNCHANGED harnessVars

\* Where the loop goes after print("  unknown command\n"), the last statement
\* of the loop body: the next iteration of "for b in items"
AfterUnknown == Advance

\* any other cmd
CmdUnknown(raw) ==
    /\ pc = "prompt"
    /\ NormCmd(raw) \notin {"q", "n", "", "a", "s"}
    /\ NormCmd(raw) \notin DOMAIN keymap
    /\ mv' = NoMove
    /\ last' = Said(NormCmd(raw), "", "unknown command")
    /\ AfterUnknown
    /\ UNCHANGED <<call, folders, keymap, rules, file, writes, fetches>>
    /\ UNCHANGED harnessVars

Next ==
    \/ \E rs \in Scripts(FolderResponses) : Start(rs)
    \/ \E rs \in Scripts(FolderResponses) : StartNoFolders(rs)
    \/ \E rs \in ExhaustScripts : StartFatal(rs)
    \/ \E rs \in Scripts(PageResponses(fetches)) : FetchPage(rs)
    \/ \E rs \in Scripts(PageResponses(fetches)) : FetchEmpty(rs)
    \/ \E rs \in ExhaustScripts : FetchFatal(rs)
    \/ \E raw \in RawCmds : CmdQuit(raw)
    \/ \E raw \in RawCmds : CmdSkip(raw)
    \/ \E raw \in RawCmds : CmdAutoNone(raw)
    \/ \E raw \in RawCmds, rs \in Scripts(MoveResponses) : CmdAutoMove(raw, rs)
    \/ \E raw \in RawCmds, rs \in ExhaustScripts : CmdAutoFatal(raw, rs)
    \/ \E raw \in RawCmds : CmdSaveNoDomain(raw)
    \/ \E raw \in RawCmds, rawkey \in RawKeys : CmdSaveInvalid(raw, rawkey)
    \/ \E raw \in RawCmds, rawkey \in RawKeys : CmdSaveRule(raw, rawkey)
    \/ \E raw \in RawCmds, rs \in Scripts(MoveResponses) : CmdDigitMove(raw, rs)
    \/ \E raw \in RawCmds, rs \in ExhaustScripts : CmdDigitFatal(raw, rs)
    \/ \E raw \in RawCmds : CmdUnknown(raw)

Spec == Init /\ [][Next]_vars

-----------------------------------------------------------------------------
(* api_post on its own: every mix of responses over the attempts of a call *)

JsonA == <<[type |-> "bookmark", id |-> 1, url |-> <<>>]>>

JsonB == <<[type |-> "bookmark", id |-> 2, url |-> <<>>]>>

ApiResponses ==
    { Resp(0, "empty", <<>>), Resp(200, "json", JsonA), Resp(200, "json", JsonB),
      Resp(200, "empty", <<>>), Resp(200, "bad", <<>>), Resp(404, "bad", <<>>),
      Resp(429, "bad", <<>>), Resp(503, "bad", <<>>) }

SessionIdle ==
    /\ folders = <<>> /\ keymap = <<>> /\ rules = <<>> /\ file = NoFile
    /\ writes = 0 /\ fetches = 0 /\ items = <<>> /\ idx = 0
    /\ mv = NoMove /\ last = Said("", "", "")

InitApi ==
    /\ pc = "api"
    /\ call \in {FreshCall(p) : p \in {"/folders/list", "/bookmarks/list", "/bookmarks/move"}}
    /\ SessionIdle
    /\ HarnessIdle

\* One attempt of the call: requests.post answers r
ApiAttempt(r) ==
    /\ pc = "api"
    /\ call.st = "running"
    /\ call' = api_post_step(call, r)
    /\ alog' = Append(alog, r)
    /\ UNCHANGED <<sessionVars, sd, sR, sres>>

NextApi == \E r \in ApiResponses : ApiAttempt(r)

SpecApi == InitApi /\ [][NextApi]_vars

-----------------------------------------------------------------------------
(* suggest_folder on its own: every domain against every rule table         *)

Alphabet == {Dot, "a"}

Strs == UNION { [1..n -> Alphabet] : n \in 0..MaxLen }

\* Keys that can matter for domain d are its suffixes (d itself and the empty
\* string included); every other key neither equals d nor ends it, and is
\* represented by a suffix rule and an exact rule of a foreign domain.
KeysFor(d) ==
    { SubSeq(d, i, Len(d)) : i \in 1..(Len(d) + 1) } \cup { <<Dot, "b">>, <<"b">> }

Tables(keys) ==
    { t \in UNION { [1..n -> [k : keys, v : {FolderId(1), FolderId(2)}]] : n \in 0..MaxRules } :
        \A i, j \in 1..Len(t) : t[i].k = t[j].k => i = j }

InitSuggest ==
    /\ pc = "suggest"
    /\ call = NoCall
    /\ SessionIdle
    /\ sd \in Strs
    /\ sR \in Tables(KeysFor(sd))
    /\ sres = None
    /\ alog = <<>>

Suggest ==
    /\ pc = "suggest"
    /\ sres' = suggest_folder(sd, sR)
    /\ pc' = "suggested"
    /\ UNCHANGED <<call, folders, keymap, rules, file, writes, fetches, items, idx, mv, last>>
    /\ UNCHANGED <<sd, sR, alog>>

NextSuggest == Suggest

SpecSuggest == InitSuggest /\ [][NextSuggest]_vars

-----------------------------------------------------------------------------
(* build_keymap on its own: catalogs of up to MaxCatalog folders            *)

\* A catalog in the order /folders/list gives it; the folder at position i
\* has one of two ids, so that catalogs of one length differ
Catalogs ==
    UNION { { [i \in 1..n |-> [folder_id |-> FolderId(i) + 100 * b[i]]] : b \in [1..n -> {0, 1}] } :
              n \in 0..MaxCatalog }

InitKeymap ==
    /\ pc = "keymap"
    /\ call = NoCall
    /\ folders \in Catalogs
    /\ keymap = <<>>
    /\ rules = <<>> /\ file = NoFile
    /\ writes = 0 /\ fetches = 0 /\ items = <<>> /\ idx = 0
    /\ mv = NoMove /\ last = Said("", "", "")
    /\ HarnessIdle

\* keymap = build_keymap(folders, max_keys=9)
BuildKeymap ==
    /\ pc = "keymap"
    /\ keymap' = build_keymap(folders, MaxKeys)
    /\ pc' = "keymapped"
    /\ UNCHANGED <<call, folders, rules, file, writes, fetches, items, idx, mv, last>>
    /\ UNCHANGED harnessVars

NextKeymap == BuildKeymap

SpecKeymap == InitKeymap /\ [][NextKeymap]_vars

-----------------------------------------------------------------------------

(* Properties *)

NonTransient4xx(status) == status >= 400 /\ status <= 499 /\ status # 429

DomAa == <<"a", Dot, "a">>

\* C1: a move call that fails with a non-transient 4xx response does not
\* abort the process (the failure is reported and the session goes on).
\* The code retries the 4xx inside api_post and exits after the sixth.
C1_MoveFailureNotFatal ==
    ~(/\ pc = "aborted"
      /\ call.path = "/bookmarks/move"
      /\ call.last_err.type = "HTTPError"
      /\ NonTransient4xx(call.last_err.status))

\* C2: a non-transient 4xx response is the last attempt of its call and no
\* sleep follows it; every attempt that is followed by another one ended in
\* a transient status or a transport fault.
C2_NonTransientEndsAttempts ==
    /\ \A k \in 1..Len(alog) :
          NonTransient4xx(alog[k].status) => (k = Len(alog) /\ Len(call.sleeps) < k)
    /\ \A k \in 1..(Len(alog) - 1) :
          alog[k].status = 0 \/ alog[k].status \in {429, 500, 502, 503, 504}

AttemptOk(r) == r.status >= 200 /\ r.status < 400 /\ r.kind # "bad"

\* C3: an api_post call makes at most 6 attempts; a successful attempt is
\* the last one and the call returns its result; six failed attempts raise
\* the fatal error, and nothing is attempted after that.
C3_AtMostSixAttempts ==
    /\ Len(alog) <= 6
    /\ \A k \in 1..Len(alog) :
          AttemptOk(alog[k]) =>
              /\ k = Len(alog)
              /\ call.st = "returned"
              /\ call.result = (IF alog[k].kind = "empty" THEN <<>> ELSE alog[k].json)
    /\ (call.st = "returned") => (Len(alog) >= 1 /\ AttemptOk(alog[Len(alog)]))
    /\ (call.st = "raised") <=> (Len(alog) = 6 /\ \A k \in 1..6 : ~AttemptOk(alog[k]))

C3_Witness ==
    /\ call.st = "returned"
    /\ Len(alog) = 6
    /\ call.result = JsonB

\* C4: the step that terminates the session (quit, or an empty page) writes
\* the rule file exactly once, with the in-memory rules of that moment; when
\* the first page is empty this is the only write of the run.
C4_TerminationPersistsOnce ==
    [][(pc # "done" /\ pc' = "done") =>
          /\ writes' = writes + 1
          /\ rules' = rules
          /\ file' # NoFile
          /\ load_json(file', <<>>) = rules
          /\ (fetches = 0 => writes' = 1)]_vars

C4_Witness ==
    /\ pc = "done"
    /\ last.msg = "No unread bookmarks."
    /\ fetches = 2
    /\ writes = 2
    /\ rules # <<>>

\* C5 (as stated): after an unknown command the session stays at the same
\* item.
C5_UnknownStaysAtItem ==
    [][(pc = "prompt" /\ last'.msg = "unknown command") =>
          (pc' = "prompt" /\ idx' = idx /\ items' = items)]_vars

\* C5 (amended): an unknown command is reported and the session goes on to
\* the next item of the page, or to the next page fetch after the last item,
\* without changing the rules or the rule file and without a move.
C5_UnknownAdvances ==
    [][(pc = "prompt" /\ last'.msg = "unknown command") =>
          /\ rules' = rules /\ file' = file /\ writes' = writes /\ mv' = NoMove
          /\ IF idx < Len(items)
             THEN pc' = "prompt" /\ idx' = idx + 1 /\ items' = items
             ELSE pc' = "fetch"]_vars

C5_Witness ==
    /\ pc = "prompt"
    /\ last.msg = "unknown command"
    /\ idx = 2

FileHas(k, v) == file # NoFile /\ \E i \in 1..Len(file) : file[i] = <<k, v>>

\* C6: when the process exits on a fatal fault of a page fetch or a move,
\* every rule of the in-memory table is in the rule file.
C6_FatalExitPersistsRules ==
    (/\ pc = "aborted"
     /\ call.st = "raised"
     /\ call.path \in {"/bookmarks/list", "/bookmarks/move"})
    => \A i \in 1..Len(rules) : FileHas(rules[i].k, rules[i].v)

SuffixMatches(d, R) ==
    { i \in 1..Len(R) : StartsWithDot(R[i].k) /\ EndsWith(d, R[i].k) }

\* C7: when the domain is an exact key of the table, suggest_folder returns
\* the folder of that key, whatever suffix rules match and wherever they are.
C7_ExactKeyWins ==
    pc = "suggested" =>
        \A i \in 1..Len(sR) : sR[i].k = sd => sres = sR[i].v

C7_Witness ==
    /\ pc = "suggested"
    /\ \E i, j \in 1..Len(sR) :
          /\ j < i
          /\ sR[i].k = sd
          /\ j \in SuffixMatches(sd, sR)
          /\ sR[j].v # sR[i].v
          /\ sres = sR[i].v

\* C8: when the domain is not an exact key, suggest_folder returns the folder
\* of the first entry in table order whose key starts with "." and ends the
\* domain, and None when there is no such entry.
C8_FirstSuffixMatch ==
    (pc = "suggested" /\ ~(\E i \in 1..Len(sR) : sR[i].k = sd)) =>
        IF SuffixMatches(sd, sR) = {}
        THEN sres = None
        ELSE \E i \in SuffixMatches(sd, sR) :
                /\ \A j \in SuffixMatches(sd, sR) : i <= j
                /\ sres = sR[i].v

C8_Witness ==
    /\ pc = "suggested"
    /\ ~(\E i \in 1..Len(sR) : sR[i].k = sd)
    /\ \E i, j \in SuffixMatches(sd, sR) :
          /\ i < j
          /\ Len(sR[i].k) < Len(sR[j].k)
          /\ sR[i].v # sR[j].v
          /\ sres = sR[i].v

\* C9: command s with a key of the keymap on an item with a domain maps the
\* domain to the folder of that key, replacing any earlier mapping, leaves
\* the other entries alone and writes the whole table to the rule file, so
\* that suggest_folder returns that folder for the domain.
C9_SaveOverwritesAndPersists ==
    [][(pc = "prompt" /\ last'.msg = "saved") =>
          /\ Dom # <<>>
          /\ last'.key \in DOMAIN keymap
          /\ \E i \in 1..Len(rules') :
                rules'[i] = [k |-> Dom, v |-> keymap[last'.key].folder_id]
          /\ \A i \in 1..Len(rules) :
                rules[i].k # Dom => rules'[i] = rules[i]
          /\ Len(rules') = (IF \E i \in 1..Len(rules) : rules[i].k = Dom
                            THEN Len(rules) ELSE Len(rules) + 1)
          /\ suggest_folder(Dom, rules') = keymap[last'.key].folder_id
          /\ file' # NoFile
          /\ load_json(file', <<>>) = rules'
          /\ writes' = writes + 1]_vars

C9_Witness ==
    /\ last.msg = "saved"
    /\ last.key = "1"
    /\ rules = << [k |-> DomAa, v |-> FolderId(1)], [k |-> <<Dot, "a">>, v |-> FolderId(1)] >>
    /\ load_json(file, <<>>) = rules

\* C10: a digit-key command changes the rules only by adding the item's
\* domain, mapped to the folder of the key, when the move returned, the
\* domain is not empty and is not yet a key; otherwise the rules stay as
\* they are (a key that exists is not overwritten, a failed move adds nothing).
C10_DigitLearnsOnlyIfAbsent ==
    [][(pc = "prompt" /\ last'.cmd \in DOMAIN keymap) =>
          IF /\ last'.msg = "moved"
             /\ Dom # <<>>
             /\ ~(\E i \in 1..Len(rules) : rules[i].k = Dom)
          THEN rules' = Append(rules, [k |-> Dom, v |-> keymap[last'.cmd].folder_id])
          ELSE rules' = rules]_vars

C10_Witness ==
    /\ pc = "prompt"
    /\ idx = 2
    /\ domain_of(items[1].url) = DomAa
    /\ last.cmd = "1"
    /\ last.msg = "moved"
    /\ mv.fid = FolderId(1)
    /\ \E i \in 1..Len(rules) : rules[i] = [k |-> DomAa, v |-> FolderId(2)]

\* The folder the rules give for domain d, read off the table directly: the
\* exact key if there is one, else the first suffix rule that ends d
RuleFor(d, R) ==
    IF \E i \in 1..Len(R) : R[i].k = d
    THEN R[CHOOSE i \in 1..Len(R) : R[i].k = d].v
    ELSE IF SuffixMatches(d, R) = {} THEN None
    ELSE R[CHOOSE i \in SuffixMatches(d, R) : \A j \in SuffixMatches(d, R) : i <= j].v

\* C11: command a on an item whose domain has an exact or suffix rule makes
\* the one move call of that command, for the item's bookmark id and the
\* folder id the rules give, and leaves the rules and the rule file as they
\* are; without a rule for the domain the command makes no move call.
C11_AutoMovesToSuggestion ==
    [][(pc = "prompt" /\ last'.cmd = "a") =>
          /\ rules' = rules /\ file' = file /\ writes' = writes
          /\ IF Dom # <<>> /\ RuleFor(Dom, rules) # None
             THEN mv' = [bid |-> Cur.id, fid |-> RuleFor(Dom, rules), via |-> "a"]
             ELSE mv' = NoMove /\ last'.msg = "no suggestion"]_vars

C11_Witness ==
    /\ pc = "prompt"
    /\ idx = 2
    /\ last.cmd = "a"
    /\ last.msg = "moved"
    /\ rules = << [k |-> <<Dot, "a">>, v |-> FolderId(1)] >>
    /\ mv = [bid |-> items[1].id, fid |-> FolderId(1), via |-> "a"]
    /\ domain_of(items[1].url) = DomAa

\* C12: when the api_post of a move runs out of attempts the process exits:
\* the fault is not reported as a failed move, the item position, the rules
\* and the rule file stay as they were, and from the aborted state (as from
\* the normal end) no step follows, so no further item is presented.
C12_MoveExhaustionIsFatal ==
    /\ [][(pc = "prompt" /\ call'.st = "raised") =>
             /\ call'.path = "/bookmarks/move"
             /\ call'.attempt = 6
             /\ mv' # NoMove
             /\ pc' = "aborted"
             /\ last'.msg # "move failed"
             /\ UNCHANGED <<items, idx, rules, file, writes  >>]_vars
    /\ [][pc \notin {"aborted", "done"}]_vars

C12_Witness ==
    /\ pc = "aborted"
    /\ call.st = "raised"
    /\ call.path = "/bookmarks/move"
    /\ idx < Len(items)
    /\ mv.bid = items[idx].id

\* The delay slept between attempt k - 1 and attempt k of the call (attempts
\* counted from 1 here); nothing is slept before the first attempt
PrecedingDelay(k) == IF k = 1 THEN 0 ELSE call.sleeps[k - 1]

\* C13 (as stated): the delay that precedes attempt n (0-indexed) is
\* 6 * 2^n tenths of a second, and when the call has raised, every delay
\* slept precedes an attempt.
C13_DelayBeforeAttempt ==
    /\ \A k \in 1..Len(alog) : PrecedingDelay(k) = BaseDelay * 2^(k - 1)
    /\ call.st = "raised" => Len(call.sleeps) < Len(alog)

\* C13 (amended): the delay slept after failed attempt n (0-indexed) is
\* 6 * 2^n tenths of a second, a function of n alone; every failed attempt
\* is followed by its delay, the sixth included, and nothing else is slept:
\* no delay precedes attempt 0, the delay that precedes attempt n >= 1 is
\* 6 * 2^(n - 1), and a call that raises has slept 6, 12, 24, 48, 96, 192.
C13_DelayAfterFailedAttempt ==
    /\ \A k \in 1..Len(call.sleeps) : call.sleeps[k] = BaseDelay * 2^(k - 1)
    /\ Len(call.sleeps) = Cardinality({k \in 1..Len(alog) : ~AttemptOk(alog[k])})
    /\ \A k \in 1..Len(alog) :
          PrecedingDelay(k) = (IF k = 1 THEN 0 ELSE BaseDelay * 2^(k - 2))
    /\ call.st = "raised" => call.sleeps = <<6, 12, 24, 48, 96, 192>>

C13_Witness ==
    /\ call.st = "raised"
    /\ Len(alog) = 6
    /\ call.sleeps[6] = 192
    /\ \E k \in 1..6 : alog[k].status = 0
    /\ \E k \in 1..6 : alog[k].status = 503

\* The error an attempt shows: a transport fault, the failure status of the
\* response, or a body that does not parse
ErrorOf(r) ==
    IF r.status = 0 THEN ConnErr
    ELSE IF r.status >= 400 THEN HTTPError(r.status)
    ELSE JSONErr

\* C14: the fatal error of a call that ran out of attempts carries the error
\* of the sixth attempt.
C14_FatalCarriesLastError ==
    call.st = "raised" => call.last_err = ErrorOf(alog[Len(alog)])

\* C15: the commands n and empty, a on an item whose domain has no rule, s
\* on an item without a domain, and s followed by a key that is not in the
\* keymap leave the rules and the rule file as they are and make no move
\* call; the session goes on to the next item (to the next page fetch after
\* the last item of the page).
C15_NoEffectCommands ==
    [][(/\ pc = "prompt"
        /\ \/ last'.cmd \in {"n", ""}
           \/ last'.cmd = "a" /\ (Dom = <<>> \/ RuleFor(Dom, rules) = None)
           \/ last'.cmd = "s" /\ (Dom = <<>> \/ last'.key \notin DOMAIN keymap))
       => /\ rules' = rules /\ file' = file /\ writes' = writes
          /\ mv' = NoMove
          /\ call' = call
          /\ IF idx < Len(items)
             THEN pc' = "prompt" /\ idx' = idx + 1 /\ items' = items
             ELSE pc' = "fetch"]_vars

C15_Witness ==
    /\ pc = "prompt"
    /\ idx = 2
    /\ last.cmd = "s"
    /\ last.key = "3"
    /\ last.msg = "invalid key"
    /\ domain_of(items[1].url) = DomAa

\* C16: when the last item of a page has been processed without quit and
\* without a fatal fault, the session is back at the page fetch, and from
\* there every step is a page fetch; page fetches happen nowhere else; the
\* session ends normally only by the command q or by a fetch without
\* bookmarks; and after the end no step follows (no fetch, no move).
C16_RefetchUntilEmptyPage ==
    /\ [][(pc = "prompt" /\ idx = Len(items) /\ last'.cmd # "q" /\ call' = call)
             => (pc' = "fetch" /\ fetches' = fetches)]_vars
    /\ [][(pc = "fetch") <=> (fetches' = fetches + 1)]_vars
    /\ [][(pc' = "done") =>
             \/ pc = "prompt" /\ last'.cmd = "q"
             \/ /\ pc = "fetch"
                /\ last'.msg = "No unread bookmarks."
                /\ items' = <<>>
                /\ call' = call]_vars
    /\ [][pc # "done"]_vars

C16_Witness ==
    /\ pc = "done"
    /\ fetches = 2
    /\ items = <<>>
    /\ idx = 0
    /\ last.msg = "No unread bookmarks."
    /\ \E i \in 1..Len(rules) : rules[i].k = DomAa

\* C17: the rules loaded from a file without an empty key never get one;
\* an item without a domain has no suggestion (a makes no move call for it),
\* and neither s nor a digit-key move on it changes the rules.
C17_NoEmptyDomainRule ==
    /\ [](\A i \in 1..Len(rules) : rules[i].k # <<>>)
    /\ [][(pc = "prompt" /\ Dom = <<>>) =>
             /\ rules' = rules
             /\ (last'.cmd = "a" => (mv' = NoMove /\ last'.msg = "no suggestion"))
             /\ (last'.cmd = "s" => (file' = file /\ last'.msg # "saved"))]_vars

C17_Witness ==
    /\ pc = "prompt"
    /\ idx = 2
    /\ items[1].url = <<>>
    /\ last.cmd = "2"
    /\ last.msg = "moved"
    /\ mv = [bid |-> items[1].id, fid |-> FolderId(2), via |-> "2"]
    /\ rules # <<>>

\* C18: every entry a session step adds to the rules or changes in them maps
\* its domain to the folder id of a folder of the catalog listed at the
\* start, one that a key of the keymap is bound to.
C18_RecordedFolderInCatalog ==
    [][(pc = "prompt") =>
          \A i \in 1..Len(rules') :
              (i > Len(rules) \/ rules'[i] # rules[i]) =>
                  /\ \E j \in 1..Len(folders) : folders[j].folder_id = rules'[i].v
                  /\ \E k \in DOMAIN keymap : keymap[k].folder_id = rules'[i].v]_vars

C18_Witness ==
    /\ last.msg = "saved"
    /\ last.key = "2"
    /\ Len(folders) = 2
    /\ rules = << [k |-> DomAa, v |-> FolderId(2)], [k |-> <<Dot, "a">>, v |-> FolderId(1)] >>

\* The step before was a digit-key move of an item of domain d that added the
\* exact rule d -> G (the last entry) over a suffix rule giving another folder
LearnedOverSuffix(d) ==
    /\ pc = "prompt"
    /\ idx >= 2
    /\ domain_of(items[idx - 1].url) = d
    /\ last.cmd \in DOMAIN keymap
    /\ last.msg = "moved"
    /\ Len(rules) >= 2
    /\ rules[Len(rules)] = [k |-> d, v |-> mv.fid]
    /\ SuffixMatches(d, rules) # {}
    /\ RuleFor(d, SubSeq(rules, 1, Len(rules) - 1)) # mv.fid

\* C19 (as stated): a digit-key move to G of an item whose domain d has no
\* exact rule but a suffix rule adds d -> G and leaves the suffix rule alone,
\* and suggest(d) returns G after every later step of the session.
C19_LearnedRuleWinsEverAfter ==
    /\ [][(/\ pc = "prompt" /\ last'.cmd \in DOMAIN keymap /\ last'.msg = "moved"
           /\ Dom # <<>>
           /\ ~(\E i \in 1..Len(rules) : rules[i].k = Dom)
           /\ SuffixMatches(Dom, rules) # {})
          => /\ rules' = Append(rules, [k |-> Dom, v |-> keymap[last'.cmd].folder_id])
             /\ suggest_folder(Dom, rules') = keymap[last'.cmd].folder_id]_vars
    /\ [][LearnedOverSuffix(DomAa) => suggest_folder(DomAa, rules') = mv.fid]_vars

\* C19 (amended): a digit-key move to G of an item whose domain d has no
\* exact rule but a suffix rule giving F adds d -> G after the existing
\* entries, which stay as they are, and suggest(d) then returns G; an exact
\* rule keeps its folder through every later step except an s command on an
\* item of its domain, which replaces it.
C19_LearnedRuleWinsUntilSaved ==
    /\ [][(/\ pc = "prompt" /\ last'.cmd \in DOMAIN keymap /\ last'.msg = "moved"
           /\ Dom # <<>>
           /\ ~(\E i \in 1..Len(rules) : rules[i].k = Dom)
           /\ SuffixMatches(Dom, rules) # {})
          => /\ suggest_folder(Dom, rules) = RuleFor(Dom, rules)
             /\ rules' = Append(rules, [k |-> Dom, v |-> keymap[last'.cmd].folder_id])
             /\ \A i \in 1..Len(rules) : rules'[i] = rules[i]
             /\ suggest_folder(Dom, rules') = keymap[last'.cmd].folder_id]_vars
    /\ [][\A i \in 1..Len(rules) :
             \/ pc = "prompt" /\ last'.msg = "saved" /\ rules[i].k = Dom
             \/ /\ i <= Len(rules')
                /\ rules'[i] = rules[i]
                /\ (~StartsWithDot(rules[i].k) =>
                       suggest_folder(rules[i].k, rules') = rules[i].v)]_vars

C19_Witness ==
    /\ LearnedOverSuffix(DomAa)
    /\ rules = << [k |-> <<Dot, "a">>, v |-> FolderId(1)], [k |-> DomAa, v |-> FolderId(2)] >>
    /\ Dom = DomAa
    /\ suggested_id = FolderId(2)

Digits9 == <<"1", "2", "3", "4", "5", "6", "7", "8", "9">>

\* C20: the keymap built from a catalog has min(9, number of folders) keys,
\* the keys are the digit strings "1" .. "size", and key i is bound to the
\* i-th folder of the catalog; so it has at most 9 keys and at most as many
\* as there are folders.
C20_KeymapIsFirstNine ==
    pc = "keymapped" =>
        LET n == Len(folders)
            size == IF n < 9 THEN n ELSE 9
        IN  /\ Cardinality(DOMAIN keymap) = size
            /\ DOMAIN keymap = {Digits9[i] : i \in 1..size}
            /\ \A i \in 1..size : keymap[Digits9[i]] = folders[i]
            /\ Cardinality(DOMAIN keymap) <= 9
            /\ Cardinality(DOMAIN keymap) <= n

C20_Witness ==
    /\ pc = "keymapped"
    /\ Len(folders) = 10
    /\ Cardinality(DOMAIN keymap) = 9
    /\ folders[9].folder_id = FolderId(9) + 100
    /\ keymap["9"] = folders[9]
    /\ folders[10] \notin {keymap[k] : k \in DOMAIN keymap}

====
